---- MODULE Spec2Model ----
(***************************************************************************)
(* Trading ledger of eve-market-analyzer: ingestion of a character's       *)
(* order history (save_character_order_history), the FIFO matching engine  *)
(* (process_character_orders) and the import workflow of the character     *)
(* screen (CharacterScreen.on_update_orders / _run_orders_import).         *)
(*                                                                         *)
(* Money.  Prices are DECIMAL(20,2) columns and are kept in cents.  The    *)
(* amounts the engine computes in floating point (fees, tax, profits) are  *)
(* kept exactly, in units of 1/Scale cent, so that price*qty*rate/100 and  *)
(* fee*(qty/lot quantity) are integers.  Rates are in hundredths of a      *)
(* percent (3.00 % = 300).                                                 *)
(***************************************************************************)
EXTENDS Integers, Sequences, FiniteSets, TLC

\* ------------------------------------------------------------------ bounds
MaxOrders == 3
NumTypes == 2
MaxIssued == 2
MaxVol == 2
MaxPageLen == 2
MaxScreens == 2
MaxThreads == 3
MaxPages == 2
NumCharacters == 2

\* ------------------------------------------------------- program constants
\* purchase_order_id of a profit record that has no source lot (None)
NULL == 0

OrderIds == 1..MaxOrders
TypeIds == 1..NumTypes
Dates == 1..MaxIssued
\* order prices, in cents.  A price only enters the engine's arithmetic, never
\* a condition, so the feed's buy orders carry one price and its sell orders
\* another.
PriceOf(is_buy_order) == IF is_buy_order THEN 100 ELSE 150
\* (broker_fee_buy_rate, broker_fee_sell_rate, sales_tax_rate) a run is given:
\* the rates of the character, by default 3.00 %, 3.00 % and 7.50 %
DefaultRates == [buy |-> 300, sell |-> 300, tax |-> 750]
RateChoices == { DefaultRates }
\* the rates a user types into the trading settings
RateInputs == { DefaultRates, [buy |-> 100, sell |-> 200, tax |-> 500] }
\* character_id values; the setting current_character_id names the first
CharacterIds == 1..NumCharacters
current_character_id == 1
OtherIds == CharacterIds \ {current_character_id}
\* the tables created for a character at login, empty
NoTables == [history |-> <<>>, inventory |-> {}, profit |-> <<>>, next_id |-> 1]

RECURSIVE Factorial(_)
Factorial(n) == IF n <= 1 THEN 1 ELSE n * Factorial(n - 1)

\* every lot quantity divides LotDenominator
LotDenominator == Factorial(MaxVol)
\* computed amounts are in units of 1/Scale cent
Scale == 10000 * LotDenominator

Min(a, b) == IF a <= b THEN a ELSE b

\* a computed amount as a DECIMAL(20,2) column stores it: whole cents,
\* rounded half away from zero
RoundCents(x) ==
    IF x >= 0 THEN (2 * x + Scale) \div (2 * Scale)
    ELSE -((2 * (-x) + Scale) \div (2 * Scale))

VARIABLES
    history,        \* character_history_<id>: order_id -> row
    inventory,      \* character_inventory_<id>: set of lots (committed)
    profit,         \* character_profit_<id>: sequence of records (committed)
    result,         \* what the last call of the store API returned, until
                    \* its caller has taken it
    lots_created,   \* history variable: every lot ever committed
    emitted_in,     \* history variable: sell order_id -> number of committed
                    \* runs that wrote profit records for it
    screens,        \* the CharacterScreen objects show_character has built,
                    \* the last one displayed: the state of each one's
                    \* update_orders_button and its queued update_ui tasks
    threads,        \* the import threads on_update_orders has started
    journal,        \* history variable: what each import has done so far
                    \* (SpecImport), the page of the last save (SpecLedger),
                    \* the character_id of the last call (SpecTraders)
    characters,     \* the characters table: character_id -> the rates saved
    others          \* the tables of the other characters: character_id ->
                    \* history, inventory and profit table, and the next
                    \* AUTO_INCREMENT id of the inventory table

vars ==
    <<history, inventory, profit, result, lots_created, emitted_in, screens, threads, journal,
      characters, others>>

\* ------------------------------------------------------------ ingestion
\* the row INSERT IGNORE writes for an order; volume_effective is fixed here
\* and exhausted takes its column default
HistoryRow(order) ==
    [order_id |-> order.order_id,
     type_id |-> order.type_id,
     is_buy_order |-> order.is_buy_order,
     issued |-> order.issued,
     price |-> order.price,
     volume_effective |-> order.volume_total - order.volume_remain,
     exhausted |-> FALSE]

\* the fields of an order the INSERT reads as order['...']: a record without
\* one of them raises KeyError, which is no mysql.connector.Error
RequiredFields == {"order_id", "type_id", "issued", "price", "volume_total", "volume_remain"}

WellFormed(order) == RequiredFields \subseteq DOMAIN order

\* an order one of whose values the connector cannot convert to a MySQL type
\* (here its range, a structure): cursor.execute raises an Error
Rejected(order) == "range" \in DOMAIN order

\* mutant: INSERT ... ON DUPLICATE KEY UPDATE, a stored order takes the
\* reported price and volumes
RECURSIVE UpsertAll(_, _, _, _)
UpsertAll(h, orders, inserted_count, skipped_count) ==
    IF orders = <<>>
    THEN [history |-> h, inserted |-> inserted_count, skipped |-> skipped_count,
          raised |-> FALSE]
    ELSE LET order == Head(orders)
         IN  IF ~WellFormed(order)
             THEN [history |-> h, inserted |-> inserted_count, skipped |-> skipped_count,
                   raised |-> TRUE]
             ELSE IF Rejected(order)
             THEN UpsertAll(h, Tail(orders), inserted_count, skipped_count + 1)
             ELSE IF order.order_id \in DOMAIN h
             THEN UpsertAll([h EXCEPT ![order.order_id] =
                                [HistoryRow(order) EXCEPT !.exhausted = h[order.order_id].exhausted]],
                            Tail(orders), inserted_count, skipped_count + 1)
             ELSE UpsertAll(h @@ (order.order_id :> HistoryRow(order)),
                            Tail(orders), inserted_count + 1, skipped_count)

\* mutant: REPLACE INTO instead of INSERT IGNORE, a stored row is overwritten
RECURSIVE ReplaceAll(_, _, _, _)
ReplaceAll(h, orders, inserted_count, skipped_count) ==
    IF orders = <<>>
    THEN [history |-> h, inserted |-> inserted_count, skipped |-> skipped_count,
          raised |-> FALSE]
    ELSE LET order == Head(orders)
             kept == [o \in DOMAIN h \ {order.order_id} |-> h[o]]
         IN  IF ~WellFormed(order)
             THEN [history |-> h, inserted |-> inserted_count, skipped |-> skipped_count,
                   raised |-> TRUE]
             ELSE IF Rejected(order)
             THEN ReplaceAll(h, Tail(orders), inserted_count, skipped_count + 1)
             ELSE ReplaceAll(kept @@ (order.order_id :> HistoryRow(order)),
                             Tail(orders), inserted_count + 1, skipped_count)

\* the for loop of save_character_order_history: one INSERT IGNORE per order,
\* rowcount > 0 counts as inserted, a duplicate key as skipped, an Error of
\* the statement as skipped; any other exception leaves the loop (raised)
RECURSIVE InsertIgnoreAll(_, _, _, _)
InsertIgnoreAll(h, orders, inserted_count, skipped_count) ==
    IF orders = <<>>
    THEN [history |-> h, inserted |-> inserted_count, skipped |-> skipped_count,
          raised |-> FALSE]
    ELSE LET order == Head(orders)
         IN  IF ~WellFormed(order)
             THEN [history |-> h, inserted |-> inserted_count, skipped |-> skipped_count,
                   raised |-> TRUE]
             ELSE IF Rejected(order) \/ order.order_id \in DOMAIN h
             THEN InsertIgnoreAll(h, Tail(orders), inserted_count, skipped_count + 1)
             ELSE InsertIgnoreAll(h @@ (order.order_id :> HistoryRow(order)),
                                  Tail(orders), inserted_count + 1, skipped_count)

\* mutant: the page is counted but never committed
SaveWithoutCommit(h, orders) ==
    [history |-> h, inserted |-> InsertIgnoreAll(h, orders, 0, 0).inserted,
     skipped |-> InsertIgnoreAll(h, orders, 0, 0).skipped]

\* what save_character_order_history does to the ledger and what it returns:
\* after the loop, commit and (inserted_count, skipped_count); on an
\* exception out of the loop, (0, 0) and the connection closed uncommitted
save_character_order_history(h, orders) ==
    LET looped == InsertIgnoreAll(h, orders, 0, 0)
    IN  IF looped.raised
        THEN [history |-> h, inserted |-> 0, skipped |-> 0]
        ELSE [history |-> looped.history, inserted |-> looped.inserted,
              skipped |-> looped.skipped]

\* ------------------------------------------------------- matching engine
ZeroStats ==
    [buy_orders_processed |-> 0,
     sell_orders_processed |-> 0,
     items_added_to_inventory |-> 0,
     items_sold |-> 0,
     items_sold_without_purchase |-> 0]

\* mutant: the SELECT without its WHERE exhausted = 0
SelectEveryOrder(h) == {h[o] : o \in DOMAIN h}

\* SELECT * FROM history WHERE exhausted = 0
SelectUnexhausted(h) == {h[o] : o \in {x \in DOMAIN h : ~h[x].exhausted}}

\* ... ORDER BY issued ASC: every list fetchall can return; the order of
\* rows with equal issued is not determined by the query
OrderedByIssued(rows) ==
    {s \in [1..Cardinality(rows) -> rows] :
        \A i, j \in 1..Cardinality(rows) :
            i < j => (s[i] # s[j] /\ s[i].issued <= s[j].issued)}

\* ORDER BY purchase_date ASC, id ASC
LotBefore(a, b) ==
    \/ a.purchase_date < b.purchase_date
    \/ (a.purchase_date = b.purchase_date /\ a.id < b.id)

RECURSIVE SortLots(_)
SortLots(lots) ==
    IF lots = {} THEN <<>>
    ELSE LET first == CHOOSE l \in lots : \A m \in lots \ {l} : LotBefore(l, m)
         IN  <<first>> \o SortLots(lots \ {first})

RECURSIVE Reversed(_)
Reversed(seq) == IF seq = <<>> THEN <<>> ELSE Append(Reversed(Tail(seq)), Head(seq))

\* mutant: the lots newest first (ORDER BY purchase_date DESC, id DESC)
InventoryItemsNewestFirst(inv, type_id) ==
    Reversed(SortLots({l \in inv : l.type_id = type_id}))

\* SELECT * FROM inventory WHERE type_id = %s ORDER BY purchase_date ASC, id ASC
InventoryItems(inv, type_id) == SortLots({l \in inv : l.type_id = type_id})

\* float(price) * quantity
Amount(price, quantity) == price * quantity * Scale

\* base * (rate / 100.0), for a base that is a price times a quantity
Percent(base, rate) == (base \div 10000) * rate

\* the INSERT of the buy branch; the broker fee lands in a DECIMAL(20,2) column
NewLot(order, id, rates) ==
    LET broker_fee == Percent(Amount(order.price, order.volume_effective), rates.buy)
    IN  [id |-> id,
         type_id |-> order.type_id,
         quantity |-> order.volume_effective,
         purchase_price |-> order.price,
         purchase_order_id |-> order.order_id,
         purchase_date |-> order.issued,
         broker_fee_buy |-> RoundCents(broker_fee)]

\* qty_to_sell = min(remaining_to_sell, inv_item['quantity'])
QtyToSell(remaining_to_sell, inv_item) == Min(remaining_to_sell, inv_item.quantity)

\* mutant: the revenue taken for the gross profit
GrossProfitIsRevenue(revenue_base, cost_base) == revenue_base

\* gross_profit = revenue_base - cost_base
GrossProfit(revenue_base, cost_base) == revenue_base - cost_base

\* mutant: the buy-side broker fee left out of the costs
NetProfitNoBuyFee(revenue_base, cost_broker_sell, cost_sales_tax, cost_base, cost_broker_buy) ==
    (revenue_base - cost_broker_sell - cost_sales_tax) - cost_base

\* net_profit = revenue_net - cost_total
NetProfit(revenue_base, cost_broker_sell, cost_sales_tax, cost_base, cost_broker_buy) ==
    LET cost_total == cost_base + cost_broker_buy
        revenue_net == revenue_base - cost_broker_sell - cost_sales_tax
    IN  revenue_net - cost_total

\* the profit record of selling qty_to_sell units of inv_item for order
MatchedRecord(order, inv_item, qty_to_sell, rates) ==
    LET cost_base == Amount(inv_item.purchase_price, qty_to_sell)
        cost_broker_buy ==
            (inv_item.broker_fee_buy * Scale * qty_to_sell) \div inv_item.quantity
        revenue_base == Amount(order.price, qty_to_sell)
        cost_broker_sell == Percent(revenue_base, rates.sell)
        cost_sales_tax == Percent(revenue_base, rates.tax)
    IN  [type_id |-> order.type_id,
         sell_order_id |-> order.order_id,
         sell_date |-> order.issued,
         quantity |-> qty_to_sell,
         purchase_price |-> inv_item.purchase_price,
         sell_price |-> order.price,
         broker_fee_buy |-> cost_broker_buy,
         broker_fee_sell |-> cost_broker_sell,
         sales_tax |-> cost_sales_tax,
         gross_profit |-> GrossProfit(revenue_base, cost_base),
         net_profit |-> NetProfit(revenue_base, cost_broker_sell, cost_sales_tax,
                                  cost_base, cost_broker_buy),
         purchase_order_id |-> inv_item.purchase_order_id]

\* mutant: the sell-side fee and the tax charged to the net profit
TerminalRecordNetOfFees(order, remaining_to_sell, rates) ==
    LET revenue_base == Amount(order.price, remaining_to_sell)
        cost_broker_sell == Percent(revenue_base, rates.sell)
        cost_sales_tax == Percent(revenue_base, rates.tax)
    IN  [type_id |-> order.type_id,
         sell_order_id |-> order.order_id,
         sell_date |-> order.issued,
         quantity |-> remaining_to_sell,
         purchase_price |-> 0,
         sell_price |-> order.price,
         broker_fee_buy |-> 0,
         broker_fee_sell |-> cost_broker_sell,
         sales_tax |-> cost_sales_tax,
         gross_profit |-> 0,
         net_profit |-> -(cost_broker_sell + cost_sales_tax),
         purchase_order_id |-> NULL]

\* the record of the units sold without a purchase record
TerminalRecord(order, remaining_to_sell, rates) ==
    LET revenue_base == Amount(order.price, remaining_to_sell)
        cost_broker_sell == Percent(revenue_base, rates.sell)
        cost_sales_tax == Percent(revenue_base, rates.tax)
    IN  [type_id |-> order.type_id,
         sell_order_id |-> order.order_id,
         sell_date |-> order.issued,
         quantity |-> remaining_to_sell,
         purchase_price |-> 0,
         sell_price |-> order.price,
         broker_fee_buy |-> 0,
         broker_fee_sell |-> cost_broker_sell,
         sales_tax |-> cost_sales_tax,
         gross_profit |-> 0,
         net_profit |-> 0,
         purchase_order_id |-> NULL]

\* mutant: the lot's broker fee scaled down with its quantity
UpdateInventoryProrated(inv, inv_item, qty_to_sell) ==
    LET new_quantity == inv_item.quantity - qty_to_sell
    IN  IF new_quantity > 0
        THEN {IF l.id = inv_item.id
              THEN [l EXCEPT !.quantity = new_quantity,
                             !.broker_fee_buy = (@ * new_quantity) \div inv_item.quantity]
              ELSE l : l \in inv}
        ELSE {l \in inv : l.id # inv_item.id}

\* UPDATE inventory SET quantity = new_quantity WHERE id = ...  when units
\* are left, DELETE FROM inventory WHERE id = ... otherwise
UpdateInventory(inv, inv_item, qty_to_sell) ==
    LET new_quantity == inv_item.quantity - qty_to_sell
    IN  IF new_quantity > 0
        THEN {IF l.id = inv_item.id THEN [l EXCEPT !.quantity = new_quantity] ELSE l :
                l \in inv}
        ELSE {l \in inv : l.id # inv_item.id}

\* the uncommitted writes of a run: w.inventory is the inventory as the run's
\* own connection sees it, w.created the lots it inserted, w.profit the
\* records it inserted, w.exhausted the orders it marked; w.takes logs every
\* quantity the run took from a lot, with the inventory held at that moment
NewWork(inv, next_id) ==
    [inventory |-> inv, created |-> {}, profit |-> <<>>, exhausted |-> {},
     stats |-> ZeroStats, next_id |-> next_id, takes |-> <<>>]

\* for inv_item in inventory_items: ... (the FIFO loop of the sell branch)
RECURSIVE SellLoop(_, _, _, _, _)
SellLoop(inventory_items, remaining_to_sell, w, order, rates) ==
    IF inventory_items = <<>> \/ remaining_to_sell <= 0
    THEN [w |-> w, remaining_to_sell |-> remaining_to_sell]
    ELSE LET inv_item == Head(inventory_items)
             qty_to_sell == QtyToSell(remaining_to_sell, inv_item)
             w2 == [w EXCEPT
                      !.profit = Append(@, MatchedRecord(order, inv_item, qty_to_sell, rates)),
                      !.inventory = UpdateInventory(@, inv_item, qty_to_sell),
                      !.stats.items_sold = @ + qty_to_sell,
                      !.takes = Append(@, [order_id |-> order.order_id,
                                           type_id |-> order.type_id,
                                           lot |-> inv_item,
                                           qty |-> qty_to_sell,
                                           remaining |-> remaining_to_sell,
                                           held |-> w.inventory])]
         IN  SellLoop(Tail(inventory_items), remaining_to_sell - qty_to_sell,
                      w2, order, rates)

\* mutant: an order without effective volume counted as processed
BuyBranchCountsEmpty(order, w, rates) ==
    IF order.volume_effective > 0
    THEN [w EXCEPT
            !.inventory = @ \cup {NewLot(order, w.next_id, rates)},
            !.created = @ \cup {NewLot(order, w.next_id, rates)},
            !.next_id = @ + 1,
            !.stats.items_added_to_inventory = @ + order.volume_effective,
            !.stats.buy_orders_processed = @ + 1]
    ELSE [w EXCEPT !.stats.buy_orders_processed = @ + 1]

BuyBranch(order, w, rates) ==
    IF order.volume_effective > 0
    THEN [w EXCEPT
            !.inventory = @ \cup {NewLot(order, w.next_id, rates)},
            !.created = @ \cup {NewLot(order, w.next_id, rates)},
            !.next_id = @ + 1,
            !.stats.items_added_to_inventory = @ + order.volume_effective,
            !.stats.buy_orders_processed = @ + 1]
    ELSE w

\* mutant: the whole effective volume counted as sold without purchase
SellBranchCountsVolume(order, w, rates) ==
    IF order.volume_effective > 0
    THEN LET looped == SellLoop(InventoryItems(w.inventory, order.type_id),
                                order.volume_effective, w, order, rates)
             w2 == looped.w
             w3 == IF looped.remaining_to_sell > 0
                   THEN [w2 EXCEPT
                           !.profit = Append(@, TerminalRecord(order,
                                                   looped.remaining_to_sell, rates)),
                           !.stats.items_sold_without_purchase =
                               @ + order.volume_effective]
                   ELSE w2
         IN  [w3 EXCEPT !.stats.sell_orders_processed = @ + 1]
    ELSE w

\* the sell branch of the loop: the lots of the type are matched oldest
\* first, and the units left over get a record without a source lot
SellBranch(order, w, rates) ==
    IF order.volume_effective > 0
    THEN LET looped == SellLoop(InventoryItems(w.inventory, order.type_id),
                                order.volume_effective, w, order, rates)
             w2 == looped.w
             w3 == IF looped.remaining_to_sell > 0
                   THEN [w2 EXCEPT
                           !.profit = Append(@, TerminalRecord(order,
                                                   looped.remaining_to_sell, rates)),
                           !.stats.items_sold_without_purchase =
                               @ + looped.remaining_to_sell]
                   ELSE w2
         IN  [w3 EXCEPT !.stats.sell_orders_processed = @ + 1]
    ELSE w

\* UPDATE history SET exhausted = 1 WHERE order_id = ...
MarkExhausted(order, w) == [w EXCEPT !.exhausted = @ \cup {order.order_id}]

\* one iteration of "for order in orders"
ProcessOrder(order, w, rates) ==
    MarkExhausted(order,
        IF order.is_buy_order
        THEN BuyBranch(order, w, rates)
        ELSE SellBranch(order, w, rates))

\* for order in orders: ...
RECURSIVE ProcessOrders(_, _, _)
ProcessOrders(orders, w, rates) ==
    IF orders = <<>> THEN w
    ELSE ProcessOrders(Tail(orders), ProcessOrder(Head(orders), w, rates), rates)

\* the three tables after connection.commit()
StoreAfterCommit(h, inv, prof, w) ==
    [history |-> [o \in DOMAIN h |->
                    IF o \in w.exhausted THEN [h[o] EXCEPT !.exhausted = TRUE]
                    ELSE h[o]],
     inventory |-> w.inventory,
     profit |-> prof \o w.profit]

\* mutant: the statements of the failed run stay, as under autocommit
RollbackKeepsWrites(h, inv, prof, w) == StoreAfterCommit(h, inv, prof, w)

\* the three tables after connection.rollback()
StoreAfterRollback(h, inv, prof, w) ==
    [history |-> h, inventory |-> inv, profit |-> prof]

\* number of statements a run has staged
StagedWrites(w) == Cardinality(w.created) + Len(w.profit) + Cardinality(w.exhausted)

\* ------------------------------------------------- the store API (Spec)
\* the least order_id the ledger does not hold yet (order ids are opaque keys)
UnusedIds(h) == OrderIds \ DOMAIN h

\* an order as the feed reports it (the fields the engine reads); the feed
\* reports an order the ledger has not seen ...
FreshOrders(h) ==
    IF UnusedIds(h) = {} THEN {}
    ELSE {[order_id |-> CHOOSE i \in UnusedIds(h) : \A j \in UnusedIds(h) : i <= j,
           type_id |-> t,
           is_buy_order |-> b,
           issued |-> d,
           price |-> PriceOf(b),
           volume_total |-> MaxVol,
           volume_remain |-> r] :
            t \in TypeIds, b \in BOOLEAN, d \in Dates, r \in 0..MaxVol}

\* ... or a stored order again, possibly with another volume_remain
KnownOrders(h) ==
    {[order_id |-> o,
      type_id |-> h[o].type_id,
      is_buy_order |-> h[o].is_buy_order,
      issued |-> h[o].issued,
      price |-> h[o].price,
      volume_total |-> MaxVol,
      volume_remain |-> r] :
        o \in DOMAIN h, r \in 0..MaxVol}

FeedOrders(h) == FreshOrders(h) \cup KnownOrders(h)

RECURSIVE PagesFrom(_, _)
PagesFrom(h, n) ==
    IF n = 0 THEN {<<>>}
    ELSE {<<>>} \cup
         UNION {{<<d>> \o rest :
                    rest \in PagesFrom(InsertIgnoreAll(h, <<d>>, 0, 0).history, n - 1)} :
                d \in FeedOrders(h)}

\* the non-empty pages of at most n orders
Pages(h, n) == PagesFrom(h, n) \ {<<>>}

\* an order as a function of its fields, without field f
Without(order, f) == [g \in DOMAIN order \ {f} |-> order[g]]

\* bad records of the feed: a new order that lacks a required field, or one
\* that carries a value the connector cannot convert
BadOrders(h) ==
    IF FreshOrders(h) = {} THEN {}
    ELSE LET order == CHOOSE d \in FreshOrders(h) : TRUE
         IN  {Without(order, "issued"), Without(order, "price"),
              order @@ ("range" :> <<>>)}

RECURSIVE RawPagesFrom(_, _)
RawPagesFrom(h, n) ==
    IF n = 0 THEN {<<>>}
    ELSE {<<>>} \cup
         UNION {{<<d>> \o rest :
                    rest \in RawPagesFrom(InsertIgnoreAll(h, <<d>>, 0, 0).history, n - 1)} :
                d \in FeedOrders(h) \cup BadOrders(h)}

\* the non-empty pages of at most n records, bad records among them
RawPages(h, n) == RawPagesFrom(h, n) \ {<<>>}

\* the order_ids of the records of a page that are new and can be stored
Storable(h, orders) ==
    {orders[i].order_id : i \in {j \in 1..Len(orders) :
        WellFormed(orders[j]) /\ ~Rejected(orders[j]) /\ orders[j].order_id \notin DOMAIN h}}

NoResult == [op |-> "none"]

Init ==
    /\ history = <<>>
    /\ inventory = {}
    /\ profit = <<>>
    /\ result = NoResult
    /\ lots_created = {}
    /\ emitted_in = [o \in OrderIds |-> 0]
    /\ screens = <<>>
    /\ threads = <<>>
    /\ journal = <<>>
    /\ characters = [c \in CharacterIds |-> DefaultRates]
    /\ others = [c \in OtherIds |-> NoTables]

\* save_character_order_history(character_id, orders) and what it returned
SavePage(orders) ==
    /\ result = NoResult
    /\ LET saved == save_character_order_history(history, orders)
       IN  /\ history' = saved.history
           /\ result' = [op |-> "save",
                         fetched |-> Len(orders),
                         known |-> Cardinality({i \in 1..Len(orders) :
                                      orders[i].order_id \in DOMAIN history}),
                         inserted |-> saved.inserted,
                         skipped |-> saved.skipped,
                         malformed |-> Cardinality({i \in 1..Len(orders) :
                                          ~WellFormed(orders[i])}),
                         storable |-> Storable(history, orders)]
    /\ UNCHANGED <<inventory, profit, lots_created, emitted_in, screens, threads>>

\* a page of one order is saved between two matching runs
Save == \E orders \in Pages(history, 1) : SavePage(orders)

\* pages of up to MaxPageLen orders are saved
SavePages == \E orders \in RawPages(history, MaxPageLen) : SavePage(orders)

\* the caller takes the returned value; the calls of one import thread
\* follow one another
Return ==
    /\ result # NoResult
    /\ result' = NoResult
    /\ UNCHANGED <<history, inventory, profit, lots_created, emitted_in, screens, threads>>

\* process_character_orders(character_id, rates) running to its commit:
\* select the unprocessed orders, process each, commit, return stats
RunOf(rates) ==
    /\ result = NoResult
    /\ \E orders \in OrderedByIssued(SelectUnexhausted(history)) :
           LET w == ProcessOrders(orders, NewWork(inventory, Cardinality(lots_created) + 1),
                                  rates)
               store == StoreAfterCommit(history, inventory, profit, w)
           IN  /\ history' = store.history
               /\ inventory' = store.inventory
               /\ profit' = store.profit
               /\ lots_created' = lots_created \cup w.created
               /\ emitted_in' = [o \in OrderIds |->
                                   IF \E i \in 1..Len(w.profit) : w.profit[i].sell_order_id = o
                                   THEN emitted_in[o] + 1 ELSE emitted_in[o]]
               /\ result' = [op |-> "process", ok |-> TRUE,
                             selected |-> Len(orders),
                             staged |-> StagedWrites(w),
                             stats |-> w.stats,
                             takes |-> w.takes]
    /\ UNCHANGED <<screens, threads>>

Run == \E rates \in RateChoices : RunOf(rates)

\* process_character_orders raising an Error or Exception after done
\* iterations of its loop (0: at connect or at the SELECT; all of them: at
\* the commit): connection.rollback(); return None
RunFail ==
    /\ result = NoResult
    /\ \E rates \in RateChoices :
       \E orders \in OrderedByIssued(SelectUnexhausted(history)) :
       \E done \in 0..Len(orders) :
           LET w == ProcessOrders(SubSeq(orders, 1, done),
                                  NewWork(inventory, Cardinality(lots_created) + 1), rates)
               store == StoreAfterRollback(history, inventory, profit, w)
           IN  /\ history' = store.history
               /\ inventory' = store.inventory
               /\ profit' = store.profit
               /\ result' = [op |-> "process", ok |-> FALSE,
                             staged |-> StagedWrites(w) > 0]
               /\ UNCHANGED <<lots_created, emitted_in, screens, threads>>

Next ==
    \/ Save /\ UNCHANGED <<journal, characters, others>>
    \/ Run /\ UNCHANGED <<journal, characters, others>>
    \/ RunFail /\ UNCHANGED <<journal, characters, others>>
    \/ Return /\ UNCHANGED <<journal, characters, others>>

Spec == Init /\ [][Next]_vars

\* ingestion alone, page by page
NextIngest ==
    \/ SavePages /\ UNCHANGED <<journal, characters, others>>
    \/ Return /\ UNCHANGED <<journal, characters, others>>

SpecIngest == Init /\ [][NextIngest]_vars

\* ------------------------------------------ the import workflow (SpecUI)
\* The character is logged in: current_character is set on every screen, so
\* the import button is visible and on_update_orders passes its first test.

\* SELECT ... FROM characters WHERE character_id = %s, the columns the
\* import reads
get_character(character_id) ==
    [character_id |-> character_id, rates |-> characters[character_id]]

\* a screen as built: current_character loaded from the characters table,
\* its update_orders_button enabled, no update_ui queued
NewScreen ==
    [current_character |-> get_character(current_character_id),
     disabled |-> FALSE, pending |-> 0]

\* Thread(target=self._run_orders_import) of a screen, before its first step
NewThread(screen) ==
    [screen |-> screen, pc |-> "start", page |-> 1,
     total_inserted |-> 0,
     rates |-> DefaultRates,
     orders |-> <<>>, held |-> {}]

\* what the token check of _run_orders_import comes to
TokenOutcomes == {"valid", "refreshed", "no_refresh_token", "refresh_failed"}

\* the screen on display, the only one whose button can be clicked
Displayed == Len(screens)

Running(pc) == {t \in DOMAIN threads : threads[t].pc = pc}

\* self.page.run_task(update_ui)
PostUpdateUi(scr, screen) == [scr EXCEPT ![screen].pending = @ + 1]

\* the tables after the commit of a run that read its orders and lots in the
\* snapshot (orders, held) and staged w: an INSERT adds its lot, an UPDATE or
\* DELETE by id acts on the row if the table still has it
StoreAfterCommitOf(h, inv, prof, held, w) ==
    LET held_ids == {l.id : l \in held}
        touched == {l.id : l \in held \ w.inventory}
        rewritten == {l \in w.inventory : l.id \in touched /\ \E c \in inv : c.id = l.id}
        inserted == {l \in w.inventory : l.id \notin held_ids}
    IN  [history |-> StoreAfterCommit(h, inv, prof, w).history,
         inventory |-> {l \in inv : l.id \notin touched} \cup rewritten \cup inserted,
         profit |-> prof \o w.profit]

\* MainApp.show_character: a new CharacterScreen replaces the one on display
show_character ==
    /\ Len(screens) < MaxScreens
    /\ screens' = Append(screens, NewScreen)
    /\ UNCHANGED <<history, inventory, profit, result, lots_created, emitted_in, threads>>

\* CharacterScreen.on_update_orders: a click on the enabled button
on_update_orders ==
    /\ screens # <<>>
    /\ ~screens[Displayed].disabled
    /\ Len(threads) < MaxThreads
    /\ screens' = [screens EXCEPT ![Displayed].disabled = TRUE]
    /\ threads' = Append(threads, NewThread(Displayed))
    /\ UNCHANGED <<history, inventory, profit, result, lots_created, emitted_in>>

\* _run_orders_import up to "Fetching orders history": the token is valid or
\* gets refreshed, or the thread posts update_ui and returns
CheckToken ==
    \E t \in DOMAIN threads :
    /\ threads[t].pc = "start"
    /\ \E outcome \in TokenOutcomes :
          IF outcome \in {"valid", "refreshed"}
          THEN /\ threads' = [threads EXCEPT ![t].pc = "fetch"]
               /\ UNCHANGED screens
          ELSE /\ threads' = [threads EXCEPT ![t].pc = "finally"]
               /\ screens' = PostUpdateUi(screens, threads[t].screen)
    /\ UNCHANGED <<history, inventory, profit, result, lots_created, emitted_in>>

\* the orders the feed serves to an import: orders of one type and one date,
\* filled completely
ImportFeed(h) ==
    {d \in FeedOrders(h) : d.type_id = 1 /\ d.issued = 1 /\ d.volume_remain = 0}

\* where the thread goes after the while loop
AfterLoop(total_inserted) == IF total_inserted > 0 THEN "process" ELSE "finally"

\* one iteration of the while loop whose request fails (orders is None) or
\* brings no order
FetchNothingOf(t) ==
    /\ threads[t].pc = "fetch"
    /\ threads' = [threads EXCEPT ![t].pc = AfterLoop(threads[t].total_inserted)]
    /\ UNCHANGED <<history, inventory, profit, result, lots_created, emitted_in, screens>>

FetchNothing == \E t \in DOMAIN threads : FetchNothingOf(t)

\* one iteration of the while loop that receives a page and saves it
FetchPageOf(t, orders, has_more) ==
    /\ threads[t].pc = "fetch"
    /\ has_more => threads[t].page < MaxPages
    /\ LET saved == save_character_order_history(history, orders)
           total_inserted == threads[t].total_inserted + saved.inserted
       IN  /\ history' = saved.history
           /\ threads' = [threads EXCEPT
                 ![t].total_inserted = total_inserted,
                 ![t].page = IF has_more THEN @ + 1 ELSE @,
                 ![t].pc = IF has_more THEN "fetch" ELSE AfterLoop(total_inserted)]
    /\ UNCHANGED <<inventory, profit, result, lots_created, emitted_in, screens>>

FetchPage ==
    \E t \in DOMAIN threads :
    \E order \in ImportFeed(history) :
    \E has_more \in BOOLEAN :
        FetchPageOf(t, <<order>>, has_more)

\* the rates are read from self.current_character and passed to
\* process_character_orders, which runs up to orders = cursor.fetchall(): the
\* run reads the unprocessed orders, and the lots, as committed at this moment
BeginRun ==
    \E t \in DOMAIN threads :
    /\ threads[t].pc = "process"
    /\ \E orders \in OrderedByIssued(SelectUnexhausted(history)) :
          threads' = [threads EXCEPT
              ![t].pc = "matching",
              ![t].rates = screens[threads[t].screen].current_character.rates,
              ![t].orders = orders,
              ![t].held = inventory]
    /\ UNCHANGED <<history, inventory, profit, result, lots_created, emitted_in, screens>>

\* the rest of process_character_orders, to its commit; the thread logs the
\* stats
CommitRun ==
    \E t \in DOMAIN threads :
    /\ threads[t].pc = "matching"
    /\    LET w == ProcessOrders(threads[t].orders,
                                 NewWork(threads[t].held, Cardinality(lots_created) + 1),
                                 threads[t].rates)
              store == StoreAfterCommitOf(history, inventory, profit, threads[t].held, w)
          IN  /\ history' = store.history
              /\ inventory' = store.inventory
              /\ profit' = store.profit
              /\ lots_created' = lots_created \cup w.created
              /\ emitted_in' = [o \in OrderIds |->
                                  IF \E i \in 1..Len(w.profit) : w.profit[i].sell_order_id = o
                                  THEN emitted_in[o] + 1 ELSE emitted_in[o]]
    /\ threads' = [threads EXCEPT ![t].pc = "finally", ![t].orders = <<>>, ![t].held = {}]
    /\ UNCHANGED <<result, screens>>

\* the rest of process_character_orders when a statement or the commit
\* fails: rollback, None returned; the thread logs the error
FailRun ==
    \E t \in DOMAIN threads :
    /\ threads[t].pc = "matching"
    /\ threads' = [threads EXCEPT ![t].pc = "finally", ![t].orders = <<>>, ![t].held = {}]
    /\ UNCHANGED <<history, inventory, profit, result, lots_created, emitted_in, screens>>

\* mutant: the thread ends without posting update_ui
FinallyWithoutUpdate ==
    \E t \in DOMAIN threads :
    /\ threads[t].pc = "finally"
    /\ threads' = [threads EXCEPT ![t] = [NewThread(threads[t].screen) EXCEPT !.pc = "done"]]
    /\ UNCHANGED <<history, inventory, profit, result, lots_created, emitted_in, screens>>

\* finally: self.page.run_task(update_ui); the thread ends, and its locals
\* with it
Finally ==
    \E t \in DOMAIN threads :
    /\ threads[t].pc = "finally"
    /\ threads' = [threads EXCEPT ![t] = [NewThread(threads[t].screen) EXCEPT !.pc = "done"]]
    /\ screens' = PostUpdateUi(screens, threads[t].screen)
    /\ UNCHANGED <<history, inventory, profit, result, lots_created, emitted_in>>

\* the event loop runs a queued update_ui: the button is enabled again
update_ui ==
    \E s \in DOMAIN screens :
    /\ screens[s].pending > 0
    /\ screens' = [screens EXCEPT ![s].pending = @ - 1, ![s].disabled = FALSE]
    /\ UNCHANGED <<history, inventory, profit, result, lots_created, emitted_in, threads>>

NextUI ==
    \/ show_character /\ UNCHANGED <<journal, characters, others>>
    \/ on_update_orders /\ UNCHANGED <<journal, characters, others>>
    \/ CheckToken /\ UNCHANGED <<journal, characters, others>>
    \/ FetchNothing /\ UNCHANGED <<journal, characters, others>>
    \/ FetchPage /\ UNCHANGED <<journal, characters, others>>
    \/ BeginRun /\ UNCHANGED <<journal, characters, others>>
    \/ CommitRun /\ UNCHANGED <<journal, characters, others>>
    \/ FailRun /\ UNCHANGED <<journal, characters, others>>
    \/ Finally /\ UNCHANGED <<journal, characters, others>>
    \/ update_ui /\ UNCHANGED <<journal, characters, others>>

SpecUI == Init /\ [][NextUI]_vars

\* ----------------------------- imports of larger orders (SpecOverlap)
\* the orders the feed serves here: buy orders of MaxVol + 1 units filled
\* completely, and sell orders of which one unit is filled
BulkFeed(h) ==
    IF UnusedIds(h) = {} THEN {}
    ELSE {[order_id |-> CHOOSE i \in UnusedIds(h) : \A j \in UnusedIds(h) : i <= j,
           type_id |-> 1,
           is_buy_order |-> b,
           issued |-> 1,
           price |-> PriceOf(b),
           volume_total |-> MaxVol + 1,
           volume_remain |-> IF b THEN 0 ELSE MaxVol] : b \in BOOLEAN}

\* one iteration of the while loop that receives the only page and saves it
FetchBulk ==
    \E t \in DOMAIN threads :
    \E order \in BulkFeed(history) :
        FetchPageOf(t, <<order>>, FALSE)

NextOverlap ==
    \/ show_character /\ UNCHANGED <<journal, characters, others>>
    \/ on_update_orders /\ UNCHANGED <<journal, characters, others>>
    \/ CheckToken /\ UNCHANGED <<journal, characters, others>>
    \/ FetchBulk /\ UNCHANGED <<journal, characters, others>>
    \/ BeginRun /\ UNCHANGED <<journal, characters, others>>
    \/ CommitRun /\ UNCHANGED <<journal, characters, others>>
    \/ FailRun /\ UNCHANGED <<journal, characters, others>>
    \/ Finally /\ UNCHANGED <<journal, characters, others>>
    \/ update_ui /\ UNCHANGED <<journal, characters, others>>

SpecOverlap == Init /\ [][NextOverlap]_vars

\* ------------------------------ imports from one screen (SpecImport)
\* One CharacterScreen is on display for good, so its button admits one
\* import at a time; journal[t] records what import t received and how its
\* while loop ended.
NewEntry == [received |-> {}, pages |-> 0, loop_exit |-> "none"]

OpenScreen == screens = <<>> /\ show_character /\ UNCHANGED <<journal, characters, others>>

ClickImport ==
    /\ on_update_orders
    /\ journal' = Append(journal, NewEntry)
    /\ UNCHANGED <<characters, others>>

\* orders is None: "ERROR: Failed to fetch page"
FetchError ==
    \E t \in DOMAIN threads :
        /\ FetchNothingOf(t)
        /\ journal' = [journal EXCEPT ![t].loop_exit = "error"]
        /\ UNCHANGED <<characters, others>>

\* not orders: "No more orders to fetch"
FetchEmpty ==
    \E t \in DOMAIN threads :
        /\ FetchNothingOf(t)
        /\ journal' = [journal EXCEPT ![t].loop_exit = "empty"]
        /\ UNCHANGED <<characters, others>>

FetchAndSave ==
    \E t \in DOMAIN threads :
    \E order \in ImportFeed(history) :
    \E has_more \in BOOLEAN :
        /\ FetchPageOf(t, <<order>>, has_more)
        /\ journal' = [journal EXCEPT
              ![t].received = @ \cup {order.order_id},
              ![t].pages = @ + 1,
              ![t].loop_exit = IF has_more THEN @ ELSE "complete"]
        /\ UNCHANGED <<characters, others>>

NextImport ==
    \/ OpenScreen
    \/ ClickImport
    \/ CheckToken /\ UNCHANGED <<journal, characters, others>>
    \/ FetchError
    \/ FetchEmpty
    \/ FetchAndSave
    \/ BeginRun /\ UNCHANGED <<journal, characters, others>>
    \/ CommitRun /\ UNCHANGED <<journal, characters, others>>
    \/ FailRun /\ UNCHANGED <<journal, characters, others>>
    \/ Finally /\ UNCHANGED <<journal, characters, others>>
    \/ update_ui /\ UNCHANGED <<journal, characters, others>>

SpecImport == Init /\ [][NextImport]_vars

\* ------------------------------- the requests of an import (SpecPages)
\* One CharacterScreen is on display; journal[t] is the log of the requests
\* of import thread t: the page asked for, what came back, whether
\* save_character_order_history committed the page, and what the iteration
\* added to total_orders, total_inserted and total_skipped.
Request(page, outcome, has_more, persisted, counts) ==
    [page |-> page, outcome |-> outcome, has_more |-> has_more, persisted |-> persisted,
     total_orders |-> counts[1], total_inserted |-> counts[2], total_skipped |-> counts[3]]

\* the pages the feed serves here: one buy order, new to the ledger or
\* reported before, or one record that lacks a required field
FeedPages(h) ==
    LET buys == {d \in ImportFeed(h) : d.is_buy_order}
    IN  {<<order>> : order \in buys}
            \cup {<<Without(order, "issued")>> : order \in {d \in buys : d.order_id \notin DOMAIN h}}

ClickPages ==
    /\ on_update_orders
    /\ journal' = Append(journal, <<>>)
    /\ UNCHANGED <<characters, others>>

\* get_character_orders_history returns (None, False): a status other than
\* 200 and 404, or an exception of the request
RequestFails ==
    \E t \in DOMAIN threads :
        /\ FetchNothingOf(t)
        /\ journal' = [journal EXCEPT
              ![t] = Append(@, Request(threads[t].page, "error", FALSE, FALSE, <<0, 0, 0>>))]
        /\ UNCHANGED <<characters, others>>

\* status 200 with an empty list
RequestEmpty ==
    \E t \in DOMAIN threads :
    \E has_more \in BOOLEAN :
        /\ FetchNothingOf(t)
        /\ journal' = [journal EXCEPT
              ![t] = Append(@, Request(threads[t].page, "empty", has_more, FALSE, <<0, 0, 0>>))]
        /\ UNCHANGED <<characters, others>>

\* status 404: ([], False)
RequestNotFound ==
    \E t \in DOMAIN threads :
        /\ FetchNothingOf(t)
        /\ journal' = [journal EXCEPT
              ![t] = Append(@, Request(threads[t].page, "not_found", FALSE, FALSE, <<0, 0, 0>>))]
        /\ UNCHANGED <<characters, others>>

\* status 200 with a page, which is saved
RequestPage ==
    \E t \in DOMAIN threads :
    \E orders \in FeedPages(history) :
    \E has_more \in BOOLEAN :
        /\ FetchPageOf(t, orders, has_more)
        /\ LET saved == save_character_order_history(history, orders)
           IN  journal' = [journal EXCEPT
                  ![t] = Append(@, Request(threads[t].page, "page", has_more,
                                           ~InsertIgnoreAll(history, orders, 0, 0).raised,
                                           <<Len(orders), saved.inserted, saved.skipped>>))]
        /\ UNCHANGED <<characters, others>>

NextPages ==
    \/ OpenScreen
    \/ ClickPages
    \/ CheckToken /\ UNCHANGED <<journal, characters, others>>
    \/ RequestFails
    \/ RequestEmpty
    \/ RequestNotFound
    \/ RequestPage
    \/ BeginRun /\ UNCHANGED <<journal, characters, others>>
    \/ CommitRun /\ UNCHANGED <<journal, characters, others>>
    \/ FailRun /\ UNCHANGED <<journal, characters, others>>
    \/ Finally /\ UNCHANGED <<journal, characters, others>>
    \/ update_ui /\ UNCHANGED <<journal, characters, others>>

SpecPages == Init /\ [][NextPages]_vars

\* ------------------------------ imports that run to their end (SpecLive)
\* One CharacterScreen is on display; journal[t] is the last thing import
\* thread t went through before its finally clause.
Logged(event) ==
    journal' = [t \in DOMAIN threads' |->
                  IF t \in DOMAIN threads /\ threads'[t] = threads[t]
                  THEN journal[t] ELSE event]

ClickLive == on_update_orders /\ Logged("started") /\ UNCHANGED <<characters, others>>

TokenLive == CheckToken /\ Logged("token") /\ UNCHANGED <<characters, others>>

FetchNothingLive == FetchNothing /\ Logged("no_orders") /\ UNCHANGED <<characters, others>>

\* the pages the feed serves here: those of FeedPages whose order is new to
\* the ledger
LivePages(h) == {orders \in FeedPages(h) : orders[1].order_id \notin DOMAIN h}

FetchLive ==
    \E t \in DOMAIN threads :
    \E orders \in LivePages(history) :
    \E has_more \in BOOLEAN :
        /\ FetchPageOf(t, orders, has_more)
        /\ Logged(IF InsertIgnoreAll(history, orders, 0, 0).raised
                  THEN "persistence_error" ELSE "saved")
        /\ UNCHANGED <<characters, others>>

\* except Exception: a statement of the try block outside
\* process_character_orders raises; the error is logged
Unexpected ==
    \E t \in DOMAIN threads :
    /\ threads[t].pc \in {"start", "fetch", "process"}
    /\ threads' = [threads EXCEPT ![t].pc = "finally"]
    /\ Logged("exception")
    /\ UNCHANGED <<history, inventory, profit, result, lots_created, emitted_in, screens,
                   characters, others>>

BeginLive == BeginRun /\ Logged("matching") /\ UNCHANGED <<characters, others>>

CommitLive == CommitRun /\ Logged("completed") /\ UNCHANGED <<characters, others>>

FailLive == FailRun /\ Logged("matching_failed") /\ UNCHANGED <<characters, others>>

FinallyLive == Finally /\ UNCHANGED <<journal, characters, others>>

UpdateUiLive == update_ui /\ UNCHANGED <<journal, characters, others>>

\* the steps of the import threads
ThreadSteps ==
    \/ TokenLive
    \/ FetchNothingLive
    \/ FetchLive
    \/ Unexpected
    \/ BeginLive
    \/ FailLive
    \/ FinallyLive
    \/ CommitLive

NextLive ==
    \/ OpenScreen
    \/ ClickLive
    \/ TokenLive
    \/ FetchNothingLive
    \/ FetchLive
    \/ Unexpected
    \/ BeginLive
    \/ CommitLive
    \/ FailLive
    \/ FinallyLive
    \/ UpdateUiLive

\* a started thread keeps running until it returns, and the event loop runs
\* every task handed to page.run_task
LiveFairness == WF_vars(ThreadSteps) /\ WF_vars(UpdateUiLive)

SpecLive == Init /\ [][NextLive]_vars /\ LiveFairness

\* ------------------------------------ the ledger over time (SpecLedger)
\* new orders of one type, filled at least in part
LedgerOrders(h) == {d \in FreshOrders(h) : d.type_id = 1 /\ d.volume_remain < MaxVol}

\* a stored order as a later request reports it: with another volume_remain,
\* another price, and its state
ReportedAgain(h) ==
    {[d EXCEPT !.price = @ + markup] @@ ("state" :> st) :
        d \in KnownOrders(h), markup \in {0, 50}, st \in {"expired", "cancelled"}}

\* a page of one order is saved; journal keeps the page until the caller
\* has taken the result
SaveLedgerPage ==
    \E order \in LedgerOrders(history) \cup ReportedAgain(history) :
        SavePage(<<order>>) /\ journal' = <<order>>

ReturnLedger == Return /\ journal' = <<>>

\* a run with the rates of the moment
RunAtRates == \E rates \in RateInputs : RunOf(rates)

NextLedger ==
    \/ SaveLedgerPage /\ UNCHANGED <<characters, others>>
    \/ RunAtRates /\ UNCHANGED <<journal, characters, others>>
    \/ RunFail /\ UNCHANGED <<journal, characters, others>>
    \/ ReturnLedger /\ UNCHANGED <<characters, others>>

SpecLedger == Init /\ [][NextLedger]_vars

\* ------------------------------------ several characters (SpecTraders)
\* mutant: one set of tables for every character
SharedTableKey(character_id) == current_character_id

\* f"character_history_{character_id}", f"character_inventory_{character_id}",
\* f"character_profit_{character_id}": the tables a call works on are those
\* named after the character_id it is given
TableKey(character_id) == character_id

\* save_character_order_history(character_id, orders) for a page of one
\* order; journal keeps the character_id of the call
SaveFor(character_id) ==
    LET key == TableKey(character_id)
    IN  IF key = current_character_id
        THEN /\ \E order \in ImportFeed(history) : SavePage(<<order>>)
             /\ UNCHANGED others
        ELSE /\ result = NoResult
             /\ \E order \in ImportFeed(others[key].history) :
                   LET saved == save_character_order_history(others[key].history, <<order>>)
                   IN  /\ others' = [others EXCEPT ![key].history = saved.history]
                       /\ result' = [op |-> "save",
                                     fetched |-> 1,
                                     known |-> IF order.order_id \in DOMAIN others[key].history
                                               THEN 1 ELSE 0,
                                     inserted |-> saved.inserted,
                                     skipped |-> saved.skipped,
                                     malformed |-> 0,
                                     storable |-> Storable(others[key].history, <<order>>)]
             /\ UNCHANGED <<history, inventory, profit, lots_created, emitted_in, screens,
                            threads>>

\* process_character_orders(character_id, rates) running to its commit
RunFor(character_id) ==
    LET key == TableKey(character_id)
    IN  IF key = current_character_id
        THEN RunOf(characters[character_id]) /\ UNCHANGED others
        ELSE /\ result = NoResult
             /\ \E orders \in OrderedByIssued(SelectUnexhausted(others[key].history)) :
                   LET w == ProcessOrders(orders,
                                NewWork(others[key].inventory, others[key].next_id),
                                characters[character_id])
                       store == StoreAfterCommit(others[key].history, others[key].inventory,
                                                 others[key].profit, w)
                   IN  /\ others' = [others EXCEPT
                             ![key] = [history |-> store.history,
                                       inventory |-> store.inventory,
                                       profit |-> store.profit,
                                       next_id |-> w.next_id]]
                       /\ result' = [op |-> "process", ok |-> TRUE,
                                     selected |-> Len(orders),
                                     staged |-> StagedWrites(w),
                                     stats |-> w.stats,
                                     takes |-> w.takes]
             /\ UNCHANGED <<history, inventory, profit, lots_created, emitted_in, screens,
                            threads>>

SaveOfTrader == \E c \in CharacterIds : SaveFor(c) /\ journal' = <<c>>

RunOfTrader == \E c \in CharacterIds : RunFor(c) /\ journal' = <<c>>

NextTraders ==
    \/ SaveOfTrader /\ UNCHANGED characters
    \/ RunOfTrader /\ UNCHANGED characters
    \/ Return /\ UNCHANGED <<journal, characters, others>>

SpecTraders == Init /\ [][NextTraders]_vars

\* ------------------------------------ the trading settings (SpecRates)
\* CharacterScreen.on_save: the rates typed into the three fields are written
\* to the character's row of the characters table; self.current_character is
\* left as it was loaded
on_save ==
    /\ screens # <<>>
    /\ \E rates \in RateInputs :
          characters' =
              [characters EXCEPT ![screens[Displayed].current_character.character_id] = rates]
    /\ UNCHANGED <<history, inventory, profit, result, lots_created, emitted_in, screens,
                   threads>>

NextRates ==
    \/ OpenScreen
    \/ on_save /\ UNCHANGED <<journal, others>>
    \/ on_update_orders /\ UNCHANGED <<journal, characters, others>>
    \/ CheckToken /\ UNCHANGED <<journal, characters, others>>
    \/ FetchNothing /\ UNCHANGED <<journal, characters, others>>
    \/ FetchPage /\ UNCHANGED <<journal, characters, others>>
    \/ BeginRun /\ UNCHANGED <<journal, characters, others>>
    \/ CommitRun /\ UNCHANGED <<journal, characters, others>>
    \/ FailRun /\ UNCHANGED <<journal, characters, others>>
    \/ Finally /\ UNCHANGED <<journal, characters, others>>
    \/ update_ui /\ UNCHANGED <<journal, characters, others>>

\* the application starts on a database whose characters table holds the
\* rates saved in earlier sessions
InitRates ==
    /\ history = <<>>
    /\ inventory = {}
    /\ profit = <<>>
    /\ result = NoResult
    /\ lots_created = {}
    /\ emitted_in = [o \in OrderIds |-> 0]
    /\ screens = <<>>
    /\ threads = <<>>
    /\ journal = <<>>
    /\ characters \in [CharacterIds -> RateInputs]
    /\ others = [c \in OtherIds |-> NoTables]

SpecRates == InitRates /\ [][NextRates]_vars

\* ------------------------------------------------------- profit reports
\* The reports read the committed tables.  issued and sell_date are kept as
\* day numbers; a month is DaysPerMonth consecutive days.
DaysPerMonth == 2
MaxDay == 3
ReportDays == 1..MaxDay

\* DATE_FORMAT(sell_date, '%Y-%m')
MonthOf(day) == (day - 1) \div DaysPerMonth + 1
FirstDayOf(month) == (month - 1) * DaysPerMonth + 1
LastDayOf(month) == month * DaysPerMonth

\* the value a DECIMAL(20,2) column of the profit table returns
Stored(x) == RoundCents(x)

RECURSIVE SumOver(_, _)
\* SUM(...) over the rows at the indexes idx of the profit table, for the
\* column expression named col
SumOver(idx, col) ==
    IF idx = {} THEN 0
    ELSE LET i == CHOOSE x \in idx : TRUE
             r == profit[i]
             v == CASE col = "total_sales" -> r.sell_price * r.quantity
                    [] col = "total_taxes" -> Stored(r.broker_fee_sell) + Stored(r.sales_tax)
                    [] col = "total_profit" -> Stored(r.net_profit)
                    [] col = "quantity_sold" -> r.quantity
         IN  v + SumOver(idx \ {i}, col)

\* COUNT(DISTINCT sell_order_id)
CountDistinctSellOrders(idx) == Cardinality({profit[i].sell_order_id : i \in idx})

\* the aggregate columns the three reports share
Totals(idx) ==
    [sell_orders |-> CountDistinctSellOrders(idx),
     total_sales |-> SumOver(idx, "total_sales"),
     total_taxes |-> SumOver(idx, "total_taxes"),
     total_profit |-> SumOver(idx, "total_profit")]

\* the integers of S as a sequence, greatest first (ORDER BY ... DESC)
RECURSIVE Descending(_)
Descending(S) ==
    IF S = {} THEN <<>>
    ELSE LET m == CHOOSE x \in S : \A y \in S : y <= x
         IN  <<m>> \o Descending(S \ {m})

\* mutant: a range that leaves its first day out
BetweenAfterFirst(x, date_from, date_to) == date_from < x /\ x <= date_to

\* x BETWEEN date_from AND date_to
Between(x, date_from, date_to) == date_from <= x /\ x <= date_to

\* the rows get_profit_by_months fetches: one per month that has profit
\* records; buy_orders comes from the LEFT JOIN on the ledger
ProfitByMonths ==
    LET months == Descending({MonthOf(profit[i].sell_date) : i \in DOMAIN profit})
        Row(m) ==
            LET idx == {i \in DOMAIN profit : MonthOf(profit[i].sell_date) = m}
            IN  [month |-> m,
                 buy_orders |-> Cardinality({o \in DOMAIN history :
                                    history[o].is_buy_order /\ MonthOf(history[o].issued) = m})]
                @@ Totals(idx)
    IN  [k \in DOMAIN months |-> Row(months[k])]

\* the rows get_profit_by_days fetches for the range date_from..date_to
ProfitByDays(date_from, date_to) ==
    LET days == Descending({profit[i].sell_date : i \in {j \in DOMAIN profit :
                                Between(profit[j].sell_date, date_from, date_to)}})
        Row(d) ==
            LET idx == {i \in DOMAIN profit : profit[i].sell_date = d}
            IN  [day |-> d,
                 buy_orders |-> Cardinality({o \in DOMAIN history :
                                    /\ history[o].is_buy_order
                                    /\ history[o].issued = d
                                    /\ Between(history[o].issued, date_from, date_to)})]
                @@ Totals(idx)
    IN  [k \in DOMAIN days |-> Row(days[k])]

\* types.typeName of the static catalog
typeName(type_id) == IF type_id = 1 THEN "Tritanium" ELSE "Pyerite"

\* the rows of get_profit_by_items for the range, as a set (one per type sold
\* in the range)
ItemRows(date_from, date_to) ==
    LET Idx(t) == {i \in DOMAIN profit :
                      /\ profit[i].type_id = t
                      /\ Between(profit[i].sell_date, date_from, date_to)}
    IN  {[type_id |-> t,
          item_name |-> typeName(t),
          buy_orders |-> Cardinality({o \in DOMAIN history :
                             /\ history[o].type_id = t
                             /\ history[o].is_buy_order
                             /\ Between(history[o].issued, date_from, date_to)}),
          quantity_sold |-> SumOver(Idx(t), "quantity_sold")]
         @@ Totals(Idx(t)) : t \in {u \in TypeIds : Idx(u) # {}}}

\* the orders in which the rows may be fetched: ORDER BY total_profit DESC
\* leaves rows of equal profit in either order
RECURSIVE ByProfitDescending(_)
ByProfitDescending(rows) ==
    IF rows = {} THEN {<<>>}
    ELSE UNION {{<<r>> \o rest : rest \in ByProfitDescending(rows \ {r})} :
                r \in {x \in rows : \A y \in rows : y.total_profit <= x.total_profit}}

ProfitByItems(date_from, date_to) == ByProfitDescending(ItemRows(date_from, date_to))

\* what a report query can meet: the store answers, a mysql.connector.Error
\* or another exception is raised (no table, no server, bad configuration),
\* or connect() succeeds and is_connected() is False
StoreOutcomes == {"ok", "error", "disconnected"}

\* what the query function returns: cursor.fetchall(), [] from an except
\* clause, or None when the body of  if connection.is_connected():  is skipped
ReportReturn(store, rows) ==
    CASE store = "ok" -> [returned |-> "list", rows |-> rows]
      [] store = "error" -> [returned |-> "list", rows |-> <<>>]
      [] store = "disconnected" -> [returned |-> "None", rows |-> <<>>]

Months == {MonthOf(d) : d \in ReportDays}

\* the ranges the reports are asked for: each month, and all days
ReportRanges == {<<FirstDayOf(m), LastDayOf(m)>> : m \in Months} \cup {<<1, MaxDay>>}

\* the orders the feed reports to the report workflow: filled orders of any
\* day
ReportOrders(h) ==
    IF UnusedIds(h) = {} THEN {}
    ELSE {[order_id |-> CHOOSE i \in UnusedIds(h) : \A j \in UnusedIds(h) : i <= j,
           type_id |-> t,
           is_buy_order |-> b,
           issued |-> d,
           price |-> PriceOf(b),
           volume_total |-> MaxVol,
           volume_remain |-> r] :
            t \in TypeIds, b \in BOOLEAN, d \in ReportDays, r \in 0..(MaxVol - 1)}

SaveReportOrder == \E order \in ReportOrders(history) : SavePage(<<order>>)

get_profit_by_months ==
    /\ result = NoResult
    /\ \E store \in StoreOutcomes :
           result' = [op |-> "report", query |-> "months", date_from |-> 1,
                      date_to |-> MaxDay] @@ ReportReturn(store, ProfitByMonths)
    /\ UNCHANGED <<history, inventory, profit, lots_created, emitted_in, screens, threads>>

get_profit_by_days ==
    /\ result = NoResult
    /\ \E store \in StoreOutcomes, range \in ReportRanges :
           result' = [op |-> "report", query |-> "days", date_from |-> range[1],
                      date_to |-> range[2]]
                     @@ ReportReturn(store, ProfitByDays(range[1], range[2]))
    /\ UNCHANGED <<history, inventory, profit, lots_created, emitted_in, screens, threads>>

get_profit_by_items ==
    /\ result = NoResult
    /\ \E store \in StoreOutcomes, range \in ReportRanges :
       \E rows \in ProfitByItems(range[1], range[2]) :
           result' = [op |-> "report", query |-> "items", date_from |-> range[1],
                      date_to |-> range[2]] @@ ReportReturn(store, rows)
    /\ UNCHANGED <<history, inventory, profit, lots_created, emitted_in, screens, threads>>

NextReport ==
    \/ SaveReportOrder /\ UNCHANGED <<journal, characters, others>>
    \/ Run /\ UNCHANGED <<journal, characters, others>>
    \/ Return /\ UNCHANGED <<journal, characters, others>>
    \/ get_profit_by_months /\ UNCHANGED <<journal, characters, others>>
    \/ get_profit_by_days /\ UNCHANGED <<journal, characters, others>>
    \/ get_profit_by_items /\ UNCHANGED <<journal, characters, others>>

SpecReport == Init /\ [][NextReport]_vars

\* ------------------------------------------------------------ properties
RECURSIVE SumQuantity(_)
SumQuantity(lots) ==
    IF lots = {} THEN 0
    ELSE LET l == CHOOSE x \in lots : TRUE
         IN  l.quantity + SumQuantity(lots \ {l})

RECURSIVE SumSeqQuantity(_)
SumSeqQuantity(records) ==
    IF records = <<>> THEN 0
    ELSE Head(records).quantity + SumSeqQuantity(Tail(records))

ProfitRecords == {profit[i] : i \in 1..Len(profit)}
RecordsOf(order_id) == SelectSeq(profit, LAMBDA r : r.sell_order_id = order_id)
MatchedOfType(type_id) ==
    SelectSeq(profit, LAMBDA r : r.type_id = type_id /\ r.purchase_order_id # NULL)
Returned(ok) == result.op = "process" /\ result.ok = ok

\* C1: a TradeOrder is matched at most once.  No buy order is the source of
\* two lots, no sell order gets profit records from two runs, a successful
\* run leaves no order unprocessed, and a run that finds no unprocessed
\* order writes nothing.
C1_MatchedAtMostOnce ==
    /\ \A o \in OrderIds :
          /\ Cardinality({l \in lots_created : l.purchase_order_id = o}) <= 1
          /\ emitted_in[o] <= 1
    /\ Returned(TRUE) =>
          /\ \A o \in DOMAIN history : history[o].exhausted
          /\ result.selected = 0 => (result.staged = 0 /\ result.stats = ZeroStats)

\* C1 witness: the engine was run again after a run that created lots and
\* profit records, and selected nothing
C1_Witness ==
    /\ Returned(TRUE)
    /\ result.selected = 0
    /\ lots_created # {}
    /\ profit # <<>>

\* C2: a run that fails leaves the lots, the profit records and the ledger
\* (so every exhausted flag) exactly as they were before it, and returns None.
C2_FailedRunChangesNothing ==
    [][(result = NoResult /\ result'.op = "process" /\ ~result'.ok)
         => (inventory' = inventory /\ profit' = profit /\ history' = history)]_vars

\* C2 witness: a run has failed after it had staged writes
C2_Witness == Returned(FALSE) /\ result.staged

\* C3: whenever a run takes units from a lot for a sell order, the lot is of
\* the order's type, no lot of that type held at that moment sorts before it
\* by (purchase_date, id), and the quantity taken is
\* min(remaining sell quantity, lot quantity).
C3_FifoConsumption ==
    Returned(TRUE) =>
        \A i \in 1..Len(result.takes) :
            LET take == result.takes[i]
            IN  /\ take.lot \in take.held
                /\ take.lot.type_id = take.type_id
                /\ \A l \in take.held :
                      l.type_id = take.type_id => ~LotBefore(l, take.lot)
                /\ take.qty = Min(take.remaining, take.lot.quantity)

\* C3 witness: one sell order took a whole first lot and part of a second
\* lot, which stays in the inventory with the rest
C3_Witness ==
    /\ Returned(TRUE)
    /\ \E i, j \in 1..Len(result.takes) :
          LET a == result.takes[i]
              b == result.takes[j]
          IN  /\ i < j
              /\ a.order_id = b.order_id
              /\ a.qty = a.lot.quantity
              /\ b.qty < b.lot.quantity
              /\ LotBefore(a.lot, b.lot)
              /\ \E l \in inventory :
                    l.id = b.lot.id /\ l.quantity = b.lot.quantity - b.qty

\* C4: every profit record with a source lot matches a sell order against a
\* lot whose purchase_date is not later than the sell order's issued date.
C4_NoLotFromTheFuture ==
    \A r \in ProfitRecords :
        r.purchase_order_id # NULL =>
            \A l \in lots_created :
                l.purchase_order_id = r.purchase_order_id => l.purchase_date <= r.sell_date

\* C7: for every type_id, the quantity matched out of lots plus the quantity
\* still held in lots equals the quantity of all lots ever created, so the
\* matched quantity never exceeds the created quantity.
C7_NoDoubleCounting ==
    \A t \in TypeIds :
        LET created == SumQuantity({l \in lots_created : l.type_id = t})
            held == SumQuantity({l \in inventory : l.type_id = t})
            matched == SumSeqQuantity(MatchedOfType(t))
        IN  matched <= created /\ created = matched + held

\* the sell orders processed while no lot of their type was held: exhausted,
\* with units sold, and without a record matched against a lot
SoldWithoutPurchase ==
    {o \in DOMAIN history :
        /\ ~history[o].is_buy_order
        /\ history[o].exhausted
        /\ history[o].volume_effective > 0
        /\ \A r \in ProfitRecords :
              r.sell_order_id = o => r.purchase_order_id = NULL}

\* the terminal record of the claim for order o, but for its net profit
IsFallbackRecord(r, o) ==
    LET revenue == Amount(history[o].price, history[o].volume_effective)
    IN  /\ r.quantity = history[o].volume_effective
        /\ r.sell_price = history[o].price
        /\ r.purchase_price = 0
        /\ r.gross_profit = 0
        /\ r.broker_fee_buy = 0
        /\ r.purchase_order_id = NULL
        /\ \E rates \in RateChoices :
              /\ r.broker_fee_sell = Percent(revenue, rates.sell)
              /\ r.sales_tax = Percent(revenue, rates.tax)

NetIdentity(r) ==
    r.net_profit = r.gross_profit - r.broker_fee_buy - r.broker_fee_sell - r.sales_tax

GrossIdentity(r) ==
    r.gross_profit = Amount(r.sell_price, r.quantity) - Amount(r.purchase_price, r.quantity)

\* C10 as claimed: every profit record satisfies
\* gross_profit = quantity*sell_price - quantity*purchase_price.
C10_GrossIdentityEveryRecord == \A r \in ProfitRecords : GrossIdentity(r)

\* C10 amended: every profit record matched against a lot satisfies
\* gross_profit = quantity*sell_price - quantity*purchase_price; the terminal
\* sold-without-purchase record has purchase_price 0 and gross_profit 0.
C10_GrossIdentityMatched ==
    \A r \in ProfitRecords :
        IF r.purchase_order_id # NULL THEN GrossIdentity(r)
        ELSE r.purchase_price = 0 /\ r.gross_profit = 0

\* C10 witness: a record matched against a lot bought below the sell price
C10_Witness ==
    \E r \in ProfitRecords :
        r.purchase_order_id # NULL /\ r.purchase_price > 0 /\ r.gross_profit > 0

\* C6: saving a page whose orders are all stored already inserts no row,
\* counts every order of the page as skipped and leaves the ledger unchanged.
C6_IdempotentIngestion ==
    [][(result'.op = "save" /\ result'.known = result'.fetched)
         => /\ history' = history
            /\ result'.inserted = 0
            /\ result'.skipped = result'.fetched]_vars

\* C6 witness: a page of two stored orders has been saved again
C6_Witness ==
    /\ result.op = "save"
    /\ result.fetched = 2
    /\ result.known = 2
    /\ result.skipped = 2

\* C5: at most one import thread is inside process_character_orders at any
\* time, so no two runs in progress hold the same unprocessed order.
C5_OneRunAtATime ==
    /\ Cardinality(Running("matching")) <= 1
    /\ \A t, u \in Running("matching") :
          t # u => \A i \in 1..Len(threads[t].orders), j \in 1..Len(threads[u].orders) :
                      threads[t].orders[i].order_id # threads[u].orders[j].order_id

\* C11: a page with a malformed record (one that lacks a required field) has
\* that record counted as skipped, and every new well-formed record of the
\* page is in the ledger once the page is saved.
C11_MalformedSkippedAlone ==
    (result.op = "save" /\ result.malformed > 0)
        => /\ result.skipped >= result.malformed
           /\ result.storable \subseteq DOMAIN history

\* C12: every order of every page an import has saved is in the ledger from
\* then on, whether the import's loop then ends on a feed error or not; so
\* after an import that went through all its pages the ledger holds the
\* orders of all of them.
C12_FeedErrorKeepsPages ==
    \A t \in DOMAIN journal : journal[t].received \subseteq DOMAIN history

\* C12 witness: an import saved page 1 and met a feed error on page 2; a
\* later import went through both pages, and the ledger holds them
C12_Witness ==
    \E t, u \in DOMAIN journal :
        /\ t < u
        /\ journal[t].loop_exit = "error" /\ journal[t].pages = 1
        /\ journal[u].loop_exit = "complete" /\ journal[u].pages = 2
        /\ journal[t].received \subseteq journal[u].received
        /\ Cardinality(journal[u].received) = 2
        /\ journal[u].received \subseteq DOMAIN history

\* C13: an import that runs alone and gets through all its pages while the
\* ledger holds an unprocessed order (left there by a run that failed and was
\* rolled back) goes on to run the matching engine, even if it inserted no
\* order.
C13_RetryRunsEngine ==
    [][\A t \in DOMAIN threads :
          (/\ threads[t].pc = "fetch"
           /\ threads'[t].pc # "fetch"
           /\ journal'[t].loop_exit = "complete"
           /\ \A u \in DOMAIN threads \ {t} : threads[u].pc = "done"
           /\ \E o \in DOMAIN history' : ~history'[o].exhausted)
              => threads'[t].pc = "process"]_vars

RECURSIVE SumRows(_, _)
SumRows(rows, col) ==
    IF rows = <<>> THEN 0 ELSE Head(rows)[col] + SumRows(Tail(rows), col)

ReportColumns == {"sell_orders", "total_sales", "total_taxes", "total_profit"}

\* C14: for every month, the by-month row's sell-order count, total sales,
\* total fees and tax, and total net profit equal the sums of the same
\* columns over the by-day rows of that month's days; a month without a
\* by-month row has no by-day row.
C14_MonthEqualsSumOfDays ==
    \A m \in Months :
        LET by_day == ProfitByDays(FirstDayOf(m), LastDayOf(m))
            by_month == SelectSeq(ProfitByMonths, LAMBDA row : row.month = m)
        IN  /\ Len(by_month) <= 1
            /\ (by_month = <<>>) <=> (by_day = <<>>)
            /\ by_month # <<>> =>
                  \A col \in ReportColumns : by_month[1][col] = SumRows(by_day, col)

\* C14 witness: the by-day report of the first month has returned two rows
\* while the by-month report has rows for two months
C14_Witness ==
    /\ result.op = "report"
    /\ result.query = "days"
    /\ result.returned = "list"
    /\ result.date_from = FirstDayOf(1)
    /\ result.date_to = LastDayOf(1)
    /\ Len(result.rows) = 2
    /\ result.rows = ProfitByDays(FirstDayOf(1), LastDayOf(1))
    /\ Len(ProfitByMonths) = 2
    /\ \A k \in 1..2 : result.rows[k].total_taxes > 0

\* C15: a report query that has returned has returned a collection, whatever
\* the store did, and an empty one when the trader has no profit record.
C15_ReportsReturnCollection ==
    result.op = "report"
        => /\ result.returned = "list"
           /\ profit = <<>> => result.rows = <<>>

\* C16: the rates a run is given are the rates most recently saved for the
\* trader of the import when the run starts.
C16_RunUsesSavedRates ==
    [][\A t \in DOMAIN threads :
          (threads[t].pc = "process" /\ threads'[t].pc = "matching")
              => threads'[t].rates =
                     characters[screens[threads[t].screen].current_character.character_id]]_vars

\* C17: profit records are append-only and a lot keeps its purchase price
\* and its acquisition fee: no step, whatever rates a run is given, changes
\* or removes a profit record, or changes the purchase_price or the
\* broker_fee_buy of a lot that stays in the inventory.
C17_ProfitAppendOnly ==
    [][/\ Len(profit') >= Len(profit)
       /\ SubSeq(profit', 1, Len(profit)) = profit
       /\ \A l \in inventory : \A k \in inventory' :
             k.id = l.id => /\ k.purchase_price = l.purchase_price
                            /\ k.broker_fee_buy = l.broker_fee_buy
                            /\ k.purchase_order_id = l.purchase_order_id]_vars

\* C17 witness: a run that processed one sell order and no buy order has
\* returned; the profit table holds the record of an earlier run at other
\* rates before the record of this run, and the lot this run sold from is
\* still in the inventory with fewer units
C17_Witness ==
    /\ Returned(TRUE)
    /\ result.stats.sell_orders_processed = 1
    /\ result.stats.buy_orders_processed = 0
    /\ Len(profit) = 2
    /\ profit[1].sell_order_id # profit[2].sell_order_id
    /\ \E r1, r2 \in RateInputs :
          /\ r1 # r2
          /\ profit[1].sales_tax =
                Percent(Amount(profit[1].sell_price, profit[1].quantity), r1.tax)
          /\ profit[2].sales_tax =
                Percent(Amount(profit[2].sell_price, profit[2].quantity), r2.tax)
    /\ \E l \in inventory :
          /\ l.purchase_order_id = profit[2].purchase_order_id
          /\ l.quantity < history[l.purchase_order_id].volume_effective
          /\ l.broker_fee_buy > 0

\* the stored row o with its exhausted flag as given
WithExhausted(row, flag) == [row EXCEPT !.exhausted = flag]

\* C18: a ledger row is immutable after ingestion except for exhausted.  No
\* step removes a row or changes a field other than exhausted, exhausted
\* never goes from true to false, and saving a page (a stored order_id
\* reported again, with whatever volume_remain, state or price) changes no
\* field of a stored row at all.
C18_RowsImmutable ==
    [][\A o \in DOMAIN history :
          /\ o \in DOMAIN history'
          /\ WithExhausted(history'[o], history[o].exhausted) = history[o]
          /\ history[o].exhausted => history'[o].exhausted
          /\ result'.op = "save" => history'[o] = history[o]]_vars

\* C18 witness: a processed order has been reported again with another price
\* and another volume_remain, the save has returned it as skipped, and its
\* row still has the price and volume_effective of its ingestion and is
\* still exhausted
C18_Witness ==
    /\ result.op = "save"
    /\ result.known = 1
    /\ result.skipped = 1
    /\ result.inserted = 0
    /\ Len(journal) = 1
    /\ LET order == journal[1]
       IN  /\ order.order_id \in DOMAIN history
           /\ history[order.order_id].exhausted
           /\ order.price # history[order.order_id].price
           /\ order.volume_total - order.volume_remain
                 # history[order.order_id].volume_effective
           /\ order.state = "cancelled"

\* the three tables of a character
TablesOf(character_id) ==
    IF character_id = current_character_id
    THEN [history |-> history, inventory |-> inventory, profit |-> profit]
    ELSE [history |-> others[character_id].history,
          inventory |-> others[character_id].inventory,
          profit |-> others[character_id].profit]

\* C19: a save or a run for one character leaves the ledger rows, the lots
\* and the profit records of every other character as they were, however
\* the calls for different characters follow one another.
C19_TradersIsolated ==
    [][\A c \in CharacterIds :
          (journal' = <<c>> /\ result'.op \in {"save", "process"} /\ result = NoResult)
              => \A d \in CharacterIds \ {c} : TablesOf(d)' = TablesOf(d)]_vars

\* C19 witness: a run for the second character has returned after selecting
\* an order, while both characters have a stored order with the same
\* order_id and a lot each, and the first character has an order still
\* unprocessed
C19_Witness ==
    /\ Returned(TRUE)
    /\ journal = <<2>>
    /\ result.selected > 0
    /\ 1 \in DOMAIN history
    /\ \E o \in DOMAIN history : ~history[o].exhausted
    /\ 1 \in DOMAIN others[2].history
    /\ others[2].history[1].exhausted
    /\ inventory # {}
    /\ others[2].inventory # {}

\* the stored orders a run started now would select, buy or sell, with
\* effective volume
Countable(h, is_buy_order) ==
    {o \in DOMAIN h : /\ ~h[o].exhausted
                      /\ h[o].is_buy_order = is_buy_order
                      /\ h[o].volume_effective > 0}

EmptyOrders == {o \in DOMAIN history : history[o].volume_effective = 0}

\* C20: after a successful run every order it selected is exhausted.  An
\* order of effective volume 0, buy or sell, never is the source of a lot or
\* the sell order of a profit record, and is not counted in
\* buy_orders_processed or sell_orders_processed, which count the selected
\* orders of positive effective volume.
C20_EmptyOrdersOnlyMarked ==
    [][(result'.op = "process" /\ result'.ok /\ result = NoResult)
          => /\ \A o \in DOMAIN history' : history'[o].exhausted
             /\ result'.stats.buy_orders_processed = Cardinality(Countable(history, TRUE))
             /\ result'.stats.sell_orders_processed = Cardinality(Countable(history, FALSE))
             /\ \A o \in EmptyOrders' :
                   /\ \A l \in lots_created' : l.purchase_order_id # o
                   /\ RecordsOf(o)' = <<>>]_vars

\* C20 witness: a run has returned that selected a buy order and a sell
\* order, both of effective volume 0, and counted neither; both are exhausted
C20_Witness ==
    /\ Returned(TRUE)
    /\ result.selected = 2
    /\ result.stats.buy_orders_processed = 0
    /\ result.stats.sell_orders_processed = 0
    /\ result.staged = 2
    /\ \E b, s \in EmptyOrders :
          /\ history[b].is_buy_order /\ history[b].exhausted
          /\ ~history[s].is_buy_order /\ history[s].exhausted
    /\ inventory = {}
    /\ profit = <<>>

\* C21: every lot in the inventory has a quantity of at least 1 and at most
\* the effective volume of the buy order that created it, and no step
\* raises the quantity of a lot that stays in the inventory.
C21_LotQuantityOnlyDecreases ==
    [][/\ \A k \in inventory' :
             /\ k.quantity > 0
             /\ k.quantity <= history'[k.purchase_order_id].volume_effective
       /\ \A l \in inventory : \A k \in inventory' :
             k.id = l.id => k.quantity <= l.quantity]_vars

\* C22: the profit records of a sell order hold at most one record without
\* a source lot, and it is the last record of that order.
C22_OneTerminalRecordLast ==
    \A o \in OrderIds :
        LET records == RecordsOf(o)
            terminal == {i \in DOMAIN records : records[i].purchase_order_id = NULL}
        IN  /\ Cardinality(terminal) <= 1
            /\ \A i \in terminal : i = Len(records)

\* C23: the requests of an import ask for the pages 1, 2, 3, ... in order,
\* and page n+1 is asked for only after page n came back non-empty with
\* has_more and was persisted; so no request follows a feed error, an empty
\* or page-not-found answer, or a page without has_more.
C23_PaginationProtocol ==
    \A t \in DOMAIN journal :
    \A n \in DOMAIN journal[t] :
        /\ journal[t][n].page = n
        /\ n > 1 => /\ journal[t][n - 1].outcome = "page"
                    /\ journal[t][n - 1].has_more
                    /\ journal[t][n - 1].persisted

RECURSIVE SumSeqFeeBuy(_)
SumSeqFeeBuy(records) ==
    IF records = <<>> THEN 0
    ELSE Head(records).broker_fee_buy + SumSeqFeeBuy(Tail(records))

SourcedFrom(lot) ==
    SelectSeq(profit, LAMBDA r : r.purchase_order_id = lot.purchase_order_id)

\* C24: the acquisition-fee shares of the profit records sourced from a lot
\* never sum to more than the lot's broker fee, and sum to exactly that fee
\* once the lot is fully consumed.
C24_AcquisitionFeeConserved ==
    \A lot \in lots_created :
        LET shares == SumSeqFeeBuy(SourcedFrom(lot))
            fee == lot.broker_fee_buy * Scale
        IN  /\ shares <= fee
            /\ (\A l \in inventory : l.id # lot.id) => shares = fee

\* C25: once a run has committed, every sell order it processed with an
\* effective volume v > 0 has profit records whose quantities sum to exactly
\* v, and every profit record has a quantity > 0.
C25_SellOrderFullyAccounted ==
    /\ \A r \in ProfitRecords : r.quantity > 0
    /\ \A o \in DOMAIN history :
          (~history[o].is_buy_order /\ history[o].exhausted /\ history[o].volume_effective > 0)
              => SumSeqQuantity(RecordsOf(o)) = history[o].volume_effective

\* the lots without their auto-increment id, the records without their order
\* of insertion
LotsHeld(inv) == {<<l.purchase_order_id, l.quantity, l.broker_fee_buy>> : l \in inv}
RecordsHeld(prof) == {prof[i] : i \in 1..Len(prof)}

\* C26: a run is deterministic: the lots and profit records it leaves are a
\* function of the unprocessed orders, the lots and the rates alone, so they
\* are the same for every order in which the store may return orders that
\* share an issued timestamp.
C26_RunDeterministic ==
    [][(result = NoResult /\ result'.op = "process" /\ result'.ok) =>
          \A orders \in OrderedByIssued(SelectUnexhausted(history)) :
              LET w == ProcessOrders(orders,
                                     NewWork(inventory, Cardinality(lots_created) + 1),
                                     DefaultRates)
                  store == StoreAfterCommit(history, inventory, profit, w)
              IN  /\ LotsHeld(inventory') = LotsHeld(store.inventory)
                  /\ RecordsHeld(profit') = RecordsHeld(store.profit)]_vars

RECURSIVE SumCount(_, _)
SumCount(requests, field) ==
    IF requests = <<>> THEN 0
    ELSE Head(requests)[field] + SumCount(Tail(requests), field)

\* C27: in every import the orders fetched are all accounted for:
\* total fetched = total inserted + total skipped, also when the persistence
\* of a page fails as a whole.
C27_ImportAccounting ==
    \A t \in DOMAIN journal :
        SumCount(journal[t], "total_orders")
            = SumCount(journal[t], "total_inserted") + SumCount(journal[t], "total_skipped")

RECURSIVE SumVolume(_, _)
SumVolume(ids, h) ==
    IF ids = {} THEN 0
    ELSE LET o == CHOOSE x \in ids : TRUE
         IN  h[o].volume_effective + SumVolume(ids \ {o}, h)

\* the records a step appended to the profit table
Appended == SubSeq(profit', Len(profit) + 1, Len(profit'))

\* C28: the statistics a successful run returns agree with what it wrote:
\* items_added_to_inventory is the summed quantity of the lots it created,
\* buy_orders_processed their number, items_sold the summed quantity of its
\* records with a source lot, items_sold_without_purchase the summed quantity
\* of its records without one, and the two together the summed effective
\* volume of the sell orders it counted.
C28_StatsAgreeWithWrites ==
    [][(result = NoResult /\ result'.op = "process" /\ result'.ok) =>
          LET stats == result'.stats
              created == lots_created' \ lots_created
              matched == SelectSeq(Appended, LAMBDA r : r.purchase_order_id # NULL)
              unmatched == SelectSeq(Appended, LAMBDA r : r.purchase_order_id = NULL)
          IN  /\ stats.items_added_to_inventory = SumQuantity(created)
              /\ stats.buy_orders_processed = Cardinality(created)
              /\ stats.items_sold = SumSeqQuantity(matched)
              /\ stats.items_sold_without_purchase = SumSeqQuantity(unmatched)
              /\ stats.items_sold + stats.items_sold_without_purchase
                    = SumVolume(Countable(history, FALSE), history)]_vars

\* C28 witness: a run has returned that created a lot, matched units of a
\* sell order against a lot and recorded units sold without purchase
C28_Witness ==
    /\ Returned(TRUE)
    /\ result.stats.items_added_to_inventory > 0
    /\ result.stats.buy_orders_processed > 0
    /\ result.stats.items_sold > 0
    /\ result.stats.items_sold_without_purchase > 0
    /\ result.stats.sell_orders_processed > 1

\* C29: for every month that has a by-month row, the row's buy_orders equals
\* the sum of buy_orders over the by-day rows of the month's days, buy orders
\* issued on days without sales included.
C29_MonthBuyOrdersEqualSumOfDays ==
    \A m \in Months :
        LET by_day == ProfitByDays(FirstDayOf(m), LastDayOf(m))
            by_month == SelectSeq(ProfitByMonths, LAMBDA row : row.month = m)
        IN  by_month # <<>> => by_month[1].buy_orders = SumRows(by_day, "buy_orders")

\* C30: every import that was started eventually ends, whatever path it
\* takes (missing refresh token, failed refresh, feed error, persistence
\* error, matching failure, unexpected exception, normal completion), and
\* the import button of its screen is enabled again.
C30_ImportEndsAndButtonEnabled ==
    \A t \in 1..MaxThreads :
        (Len(threads) >= t)
            ~> (/\ Len(threads) >= t
                /\ threads[t].pc = "done"
                /\ ~screens[threads[t].screen].disabled)

\* C30 witness: three imports have ended, one at the token check, one after
\* an unexpected exception and one after a failed matching run; no update_ui
\* is pending and the button is enabled
C30_Witness ==
    /\ \A t \in DOMAIN threads : threads[t].pc = "done"
    /\ \E a, b, c \in DOMAIN journal :
          /\ journal[a] = "token"
          /\ journal[b] = "exception"
          /\ journal[c] = "matching_failed"
    /\ screens # <<>>
    /\ screens[1].pending = 0
    /\ ~screens[1].disabled
====
